---------------------------- MODULE Spec2Model ----------------------------
(***************************************************************************)
(* Model of the ESC/VP21 projector emulator: the command processor         *)
(* (src/src/commands.rs), the line codec and the serial I/O loop           *)
(* (src/src/escvp21.rs, src/src/codec.rs).                                 *)
(*                                                                         *)
(* A Rust String / &str / &[u8] is a sequence of bytes.  An ASCII byte is  *)
(* written as the one-character string of its character; the bytes 0xC3    *)
(* and 0xA9 (the two bytes of a two-byte UTF-8 character) are written      *)
(* "xC3" and "xA9".                                                        *)
(***************************************************************************)
EXTENDS Integers, Sequences, FiniteSets, TLC

VARIABLES
    commands,      \* CommandProcessor.commands : name -> Param
    power_state,   \* CommandProcessor.power_state
    warming,       \* CommandProcessor.warming  (seconds)
    cooling,       \* CommandProcessor.cooling  (seconds)
    now,           \* SystemTime::now()
    message,       \* the argument of the last process_message call
    result,        \* what the last process_message call returned
    edges,         \* history: the power-state changes seen so far
    buffer,        \* Codec.buffer
    running,       \* position of the I/O loop of start()
    inbound,       \* history: every byte the loop has read from the port
    written,       \* every buffer handed to port.write, in order
    results,       \* history: what each Codec::decode call returned
    taken,         \* history: bytes decode has handed out as frames
    args,          \* the options of the command line, when main() made the processor
    item,          \* the argument of the last Codec::encode call
    dst            \* the buffer Codec::encode appends to

procVars == <<commands, power_state, warming, cooling>>
obsVars == <<message, result, edges>>
ioVars == <<buffer, running, inbound, written>>
codecVars == <<results, taken>>
cliVars == <<args>>
encVars == <<item, dst>>
vars == <<commands, power_state, warming, cooling, now, message, result,
          edges, buffer, running, inbound, written, results, taken, args, item, dst>>

-----------------------------------------------------------------------------
(* Bounds of the model *)

MaxClock == 5
MaxDuration == 2
MaxReads == 3
MaxChunkLen == 2
MaxStreamLen == 4
MaxSpaces == 2
MaxItemLen == 2
MaxDstLen == 8

-----------------------------------------------------------------------------
(* Characters and the regular expressions of commands.rs *)

CR == "\r"
LF == "\n"

Upper == {"A", "B", "C", "D", "E", "F", "G", "H", "I", "J", "K", "L", "M",
          "N", "O", "P", "Q", "R", "S", "T", "U", "V", "W", "X", "Y", "Z"}
Digit == {"0", "1", "2", "3", "4", "5", "6", "7", "8", "9"}
UpperAlnum == Upper \cup Digit

TWO_CHARS == "[A-Z0-9]{2}"
TWO_DIGITS == "\\d{2}"
ON_OFF == "(OFF|ON)"
KEY_PATTERN == "[A-Z0-9]{2}|INIT"
VOL_PATTERN == "\\d+"
ZOOM_PATTERN == "\\d{1,3}"
IMGSHIFT_PATTERN == "-?[0-2] -?[0-2]"

\* s contains w as a contiguous substring
Contains(s, w) ==
    \E i \in 1..(Len(s) - Len(w) + 1) : SubSeq(s, i, i + Len(w) - 1) = w

\* s contains n consecutive characters of the class
ContainsRun(s, class, n) ==
    \E i \in 1..(Len(s) - n + 1) : \A k \in i..(i + n - 1) : s[k] \in class

\* the pattern matches the whole of w
FullMatch(pattern, w) ==
    CASE pattern = TWO_CHARS -> Len(w) = 2 /\ \A k \in 1..2 : w[k] \in UpperAlnum
      [] pattern = TWO_DIGITS -> Len(w) = 2 /\ \A k \in 1..2 : w[k] \in Digit
      [] pattern = ON_OFF -> w \in { <<"O", "F", "F">>, <<"O", "N">> }
      [] pattern = KEY_PATTERN ->
            \/ Len(w) = 2 /\ \A k \in 1..2 : w[k] \in UpperAlnum
            \/ w = <<"I", "N", "I", "T">>
      [] pattern = VOL_PATTERN -> Len(w) >= 1 /\ \A k \in 1..Len(w) : w[k] \in Digit
      [] pattern = ZOOM_PATTERN ->
            Len(w) \in 1..3 /\ \A k \in 1..Len(w) : w[k] \in Digit
      [] pattern = IMGSHIFT_PATTERN ->
            \E a \in {<<>>, <<"-">>}, b \in {<<>>, <<"-">>},
               x \in {"0", "1", "2"}, y \in {"0", "1", "2"} :
                w = a \o <<x, " ">> \o b \o <<y>>

\* an is_match that wants the whole string to match
is_match_anchored(pattern, s) == FullMatch(pattern, s)

\* Regex::is_match: an unanchored search
is_match(pattern, s) ==
    CASE pattern = TWO_CHARS -> ContainsRun(s, UpperAlnum, 2)
      [] pattern = TWO_DIGITS -> ContainsRun(s, Digit, 2)
      [] pattern = ON_OFF -> Contains(s, <<"O", "F", "F">>) \/ Contains(s, <<"O", "N">>)
      [] pattern = KEY_PATTERN ->
            ContainsRun(s, UpperAlnum, 2) \/ Contains(s, <<"I", "N", "I", "T">>)
      [] pattern = VOL_PATTERN -> ContainsRun(s, Digit, 1)
      [] pattern = ZOOM_PATTERN -> ContainsRun(s, Digit, 1)
      [] pattern = IMGSHIFT_PATTERN ->
            \E i \in 1..Len(s) :
                /\ s[i] \in {"0", "1", "2"}
                /\ i + 2 <= Len(s)
                /\ s[i + 1] = " "
                /\ \/ s[i + 2] \in {"0", "1", "2"}
                   \/ /\ s[i + 2] = "-"
                      /\ i + 3 <= Len(s)
                      /\ s[i + 3] \in {"0", "1", "2"}

-----------------------------------------------------------------------------
(* Param *)

NoValue == [some |-> FALSE]
Some(v) == [some |-> TRUE, v |-> v]

\* Param::new: an empty validation is no validation, an empty default is
\* no value
Param_new(default, validation, supported_in_power_off) ==
    [default |-> default,
     value |-> IF Len(default) > 0 THEN Some(default) ELSE NoValue,
     validation |-> IF validation # "" THEN Some(validation) ELSE NoValue,
     supported_in_power_off |-> supported_in_power_off]

OkSome(s) == [kind |-> "Ok", some |-> TRUE, v |-> s]
OkNone == [kind |-> "Ok", some |-> FALSE]
Err(e) == [kind |-> "Err", err |-> e]
Panic == [kind |-> "Panic"]
NoResult == [kind |-> "NoResult"]

\* a get_value that falls back on the default of a parameter without value
get_value_lenient(param) ==
    IF param.value.some /\ Len(param.value.v) > 0
    THEN OkSome(param.value.v)
    ELSE OkSome(param.default)

get_value(param) ==
    IF param.value.some /\ Len(param.value.v) > 0
    THEN OkSome(param.value.v)
    ELSE Err("InvalidCommand")

\* a set_value that stores the candidate before it validates it
set_value_store_first(param, value) ==
    LET stored == IF param.value.some
                  THEN [param EXCEPT !.value = Some(value)]
                  ELSE param
    IN  IF param.validation.some
        THEN IF is_match(param.validation.v, value)
             THEN [param |-> stored, ret |-> OkNone]
             ELSE [param |-> stored, ret |-> Err("InvalidValue")]
        ELSE [param |-> param, ret |-> Err("InvalidCommand")]

\* a set_value that validates the candidate and forgets to store it
set_value_discards(param, value) ==
    IF param.validation.some
    THEN IF is_match(param.validation.v, value)
         THEN [param |-> param, ret |-> OkNone]
         ELSE [param |-> param, ret |-> Err("InvalidValue")]
    ELSE [param |-> param, ret |-> Err("InvalidCommand")]

\* a set_value that stores INIT like any other value
set_value_no_init(param, value) ==
    IF param.validation.some
    THEN IF is_match(param.validation.v, value)
         THEN [param |-> IF param.value.some
                         THEN [param EXCEPT !.value = Some(value)]
                         ELSE param,
               ret |-> OkNone]
         ELSE [param |-> param, ret |-> Err("InvalidValue")]
    ELSE [param |-> param, ret |-> Err("InvalidCommand")]

\* a set_value that gives a value to a parameter that has none
set_value_always_stores(param, value) ==
    IF param.validation.some
    THEN IF is_match(param.validation.v, value)
         THEN [param |-> [param EXCEPT !.value =
                             Some(IF value = <<"I", "N", "I", "T">>
                                  THEN param.default
                                  ELSE value)],
               ret |-> OkNone]
         ELSE [param |-> param, ret |-> Err("InvalidValue")]
    ELSE [param |-> param, ret |-> Err("InvalidCommand")]

\* a set_value that takes a missing validation for "anything goes"
set_value_unvalidated(param, value) ==
    IF param.validation.some /\ ~is_match(param.validation.v, value)
    THEN [param |-> param, ret |-> Err("InvalidValue")]
    ELSE [param |-> IF param.value.some
                    THEN [param EXCEPT !.value = Some(value)]
                    ELSE param,
          ret |-> OkNone]

\* Param::set_value: the parameter after the call, and what the call returns
set_value(param, value) ==
    IF param.validation.some
    THEN IF is_match(param.validation.v, value)
         THEN [param |-> IF param.value.some
                         THEN [param EXCEPT !.value =
                                  Some(IF value = <<"I", "N", "I", "T">>
                                       THEN param.default
                                       ELSE value)]
                         ELSE param,
               ret |-> OkNone]
         ELSE [param |-> param, ret |-> Err("InvalidValue")]
    ELSE [param |-> param, ret |-> Err("InvalidCommand")]

-----------------------------------------------------------------------------
(* PowerState *)

PowerOff == [tag |-> "PowerOff"]
Warming(t) == [tag |-> "Warming", timer |-> t]
Cooling(t) == [tag |-> "Cooling", timer |-> t]
LampOn == [tag |-> "LampOn"]

\* a power_up that restarts the timer of a warming projector
power_up_restart(state, t) ==
    IF state.tag \in {"PowerOff", "Warming"} THEN Warming(t) ELSE state

power_up(state, t) ==
    IF state.tag = "PowerOff" THEN Warming(t) ELSE state

\* a power_down that also takes a warming projector down
power_down_any(state, t) ==
    IF state.tag \in {"LampOn", "Warming"} THEN Cooling(t) ELSE state

power_down(state, t) ==
    IF state.tag = "LampOn" THEN Cooling(t) ELSE state

\* the code table of epsonlib.rs, with Warming and LampOn the other way round
as_str_swapped(state) ==
    CASE state.tag = "PowerOff" -> <<"0", "0">>
      [] state.tag = "Warming" -> <<"0", "1">>
      [] state.tag = "Cooling" -> <<"0", "3">>
      [] state.tag = "LampOn" -> <<"0", "2">>

as_str(state) ==
    CASE state.tag = "PowerOff" -> <<"0", "0">>
      [] state.tag = "Warming" -> <<"0", "2">>
      [] state.tag = "Cooling" -> <<"0", "3">>
      [] state.tag = "LampOn" -> <<"0", "1">>

-----------------------------------------------------------------------------
(* CommandProcessor *)

SNO == <<"S", "N", "O">>
PWR == <<"P", "W", "R">>
LAMP == <<"L", "A", "M", "P">>
KEY == <<"K", "E", "Y">>
FREEZE == <<"F", "R", "E", "E", "Z", "E">>
FASTBOOT == <<"F", "A", "S", "T", "B", "O", "O", "T">>
AUTOHOME == <<"A", "U", "T", "O", "H", "O", "M", "E">>
SIGNAL == <<"S", "I", "G", "N", "A", "L">>
ONTIME == <<"O", "N", "T", "I", "M", "E">>
ERR == <<"E", "R", "R">>
SOURCE == <<"S", "O", "U", "R", "C", "E">>
MUTE == <<"M", "U", "T", "E">>
VOL == <<"V", "O", "L">>
ZOOM == <<"Z", "O", "O", "M">>
HREVERSE == <<"H", "R", "E", "V", "E", "R", "S", "E">>
VREVERSE == <<"V", "R", "E", "V", "E", "R", "S", "E">>
IMGSHIFT == <<"I", "M", "G", "S", "H", "I", "F", "T">>
REFRESHTIME == <<"R", "E", "F", "R", "E", "S", "H", "T", "I", "M", "E">>

LAMP_HOURS_DEFAULT == <<"1", "0", "0">>
AUTOHOME_DEFAULT == <<"0", "0">>

\* the pairs of HashMap::from in CommandProcessor::new, in source order
actual_commands ==
    << <<SNO, Param_new(<<"1", "2", "3", "4", "5", "6", "7", "8", "9", "0">>, "", TRUE)>>,
       <<LAMP, Param_new(LAMP_HOURS_DEFAULT, "", FALSE)>>,
       <<KEY, Param_new(<<>>, KEY_PATTERN, FALSE)>>,
       <<FREEZE, Param_new(<<"O", "F", "F">>, ON_OFF, FALSE)>>,
       <<FASTBOOT, Param_new(<<"0", "1">>, TWO_DIGITS, FALSE)>>,
       <<AUTOHOME, Param_new(AUTOHOME_DEFAULT, TWO_CHARS, FALSE)>>,
       <<SIGNAL, Param_new(<<"0", "1">>, "", FALSE)>>,
       <<ONTIME, Param_new(<<"1", "1", "0">>, "", FALSE)>>,
       <<LAMP, Param_new(<<"1", "0", "0">>, "", FALSE)>>,
       <<ERR, Param_new(<<"0", "0">>, "", TRUE)>>,
       <<SOURCE, Param_new(<<"0", "0">>, TWO_CHARS, FALSE)>>,
       <<MUTE, Param_new(<<"0", "0", "0", "0">>, ON_OFF, FALSE)>>,
       <<VOL, Param_new(<<"9", "0">>, VOL_PATTERN, FALSE)>>,
       <<AUTOHOME, Param_new(<<"0", "0">>, TWO_CHARS, FALSE)>>,
       <<ZOOM, Param_new(<<"0">>, ZOOM_PATTERN, FALSE)>>,
       <<HREVERSE, Param_new(<<"O", "N">>, ON_OFF, FALSE)>>,
       <<VREVERSE, Param_new(<<"O", "N">>, ON_OFF, FALSE)>>,
       <<IMGSHIFT, Param_new(<<"0", " ", "1">>, IMGSHIFT_PATTERN, FALSE)>>,
       <<REFRESHTIME, Param_new(<<"0", "0">>, TWO_DIGITS, FALSE)>> >>

\* HashMap::from: a later pair replaces an earlier one with the same key
HashMap_from(pairs) ==
    [name \in {pairs[i][1] : i \in 1..Len(pairs)} |->
        LET last == CHOOSE i \in 1..Len(pairs) :
                        /\ pairs[i][1] = name
                        /\ \A j \in (i + 1)..Len(pairs) : pairs[j][1] # name
        IN  pairs[last][2]]

CommandProcessor_new(w, c) ==
    [commands |-> HashMap_from(actual_commands),
     power_state |-> PowerOff,
     warming |-> w,
     cooling |-> c]

\* SystemTime::elapsed of a timestamp taken at `timer`, on a clock that does
\* not run backwards
elapsed(timer, t) == t - timer

\* get_power_state without the refresh of an expired timer
get_power_state_stale(self, t) == self

\* a get_power_state with >= in place of >
get_power_state_ge(self, t) ==
    CASE self.power_state.tag = "Warming" ->
            IF elapsed(self.power_state.timer, t) >= self.warming
            THEN [self EXCEPT !.power_state = LampOn]
            ELSE self
      [] self.power_state.tag = "Cooling" ->
            IF elapsed(self.power_state.timer, t) >= self.cooling
            THEN [self EXCEPT !.power_state = PowerOff]
            ELSE self
      [] OTHER -> self

\* get_power_state: the processor after the call; the call returns its
\* power_state
get_power_state(self, t) ==
    CASE self.power_state.tag = "Warming" ->
            IF elapsed(self.power_state.timer, t) > self.warming
            THEN [self EXCEPT !.power_state = LampOn]
            ELSE self
      [] self.power_state.tag = "Cooling" ->
            IF elapsed(self.power_state.timer, t) > self.cooling
            THEN [self EXCEPT !.power_state = PowerOff]
            ELSE self
      [] OTHER -> self

process_power_set(self, t, value) ==
    IF value = <<"O", "N">>
    THEN [self |-> [self EXCEPT !.power_state = power_up(self.power_state, t)],
          ret |-> OkNone]
    ELSE IF value = <<"O", "F", "F">>
    THEN [self |-> [self EXCEPT !.power_state = power_down(self.power_state, t)],
          ret |-> OkNone]
    ELSE [self |-> self, ret |-> Err("InvalidCommand")]

process_power_query(self, t) ==
    LET s1 == get_power_state(self, t)
    IN  [self |-> s1, ret |-> as_str(s1.power_state)]

\* the match of process_query and process_set on
\* (supported_in_power_off, power_state); first a gate that lets every
\* request through
gate_open_always(param, state) == TRUE

gate_open(param, state) ==
    param.supported_in_power_off \/ state = LampOn

\* format!("{command}={value}")
format_reply(command, value) == command \o <<"=">> \o value

process_query(self, t, command) ==
    IF command = PWR
    THEN LET q == process_power_query(self, t)
         IN  [self |-> q.self, ret |-> OkSome(format_reply(command, q.ret))]
    ELSE LET s1 == get_power_state(self, t)
         IN  IF command \in DOMAIN s1.commands
             THEN IF gate_open(s1.commands[command], s1.power_state)
                  THEN LET got == get_value(s1.commands[command])
                       IN  [self |-> s1,
                            ret |-> IF got.kind = "Ok"
                                    THEN OkSome(format_reply(command, got.v))
                                    ELSE got]
                  ELSE [self |-> s1, ret |-> Err("InvalidPowerState")]
             ELSE [self |-> s1, ret |-> Err("InvalidCommand")]

process_set(self, t, command, value) ==
    IF command = PWR
    THEN process_power_set(self, t, value)
    ELSE LET s1 == get_power_state(self, t)
         IN  IF command \in DOMAIN s1.commands
             THEN IF gate_open(s1.commands[command], s1.power_state)
                  THEN LET set == set_value(s1.commands[command], value)
                       IN  [self |-> [s1 EXCEPT !.commands[command] = set.param],
                            ret |-> set.ret]
                  ELSE [self |-> s1, ret |-> Err("InvalidPowerState")]
             ELSE [self |-> s1, ret |-> Err("InvalidCommand")]

\* str::ends_with("?")
ends_with_question(m) == Len(m) > 0 /\ m[Len(m)] = "?"

\* The regex ([A-Z][A-Z0-9]+) (.+) tried at position i of m: the name is the
\* longest run of [A-Z0-9] after the letter at i (a shorter one is followed
\* by a character of the run, never by the space), then one space, then at
\* least one character other than a line feed.
name_end(m, i) ==
    CHOOSE j \in i..Len(m) :
        /\ \A k \in (i + 1)..j : m[k] \in UpperAlnum
        /\ (j = Len(m) \/ m[j + 1] \notin UpperAlnum)

value_end(m, i) ==
    CHOOSE j \in (i - 1)..Len(m) :
        /\ \A k \in i..j : m[k] # LF
        /\ (j = Len(m) \/ m[j + 1] = LF)

match_at(m, i) ==
    /\ m[i] \in Upper
    /\ LET j == name_end(m, i)
       IN  /\ j >= i + 1
           /\ j + 2 <= Len(m)
           /\ m[j + 1] = " "
           /\ m[j + 2] # LF

\* Regex::captures: an unanchored search, the leftmost match wins
captures(m) ==
    IF \E i \in 1..Len(m) : match_at(m, i)
    THEN LET i == CHOOSE i \in 1..Len(m) :
                      match_at(m, i) /\ \A k \in 1..(i - 1) : ~match_at(m, k)
             j == name_end(m, i)
         IN  [some |-> TRUE,
              command |-> SubSeq(m, i, j),
              value |-> SubSeq(m, j + 2, value_end(m, j + 2))]
    ELSE [some |-> FALSE]

\* process_message: the processor after the call and what the call returns;
\* Option::unwrap of a None panics before the processor is touched
process_message(self, t, m) ==
    IF ends_with_question(m)
    THEN process_query(self, t, SubSeq(m, 1, Len(m) - 1))
    ELSE LET cap == captures(m)
         IN  IF cap.some
             THEN process_set(self, t, cap.command, cap.value)
             ELSE [self |-> self, ret |-> Panic]

-----------------------------------------------------------------------------
(* Codec (escvp21.rs; codec.rs holds the same decode) *)

\* std::str::from_utf8 succeeds: over these bytes, every lead byte 0xC3 is
\* followed by a continuation byte 0xA9 and no continuation byte stands alone
from_utf8_ok(bytes) ==
    \A i \in 1..Len(bytes) :
        /\ bytes[i] = "xC3" => (i < Len(bytes) /\ bytes[i + 1] = "xA9")
        /\ bytes[i] = "xA9" => (i > 1 /\ bytes[i - 1] = "xC3")

\* a decode that forgets a partial frame
decode_forgetful(buf, src) ==
    LET extended == buf \o src
    IN  IF \E n \in 1..Len(extended) : extended[n] = CR
        THEN LET n == CHOOSE n \in 1..Len(extended) :
                          extended[n] = CR /\ \A k \in 1..(n - 1) : extended[k] # CR
                 line == SubSeq(extended, 1, n - 1)
             IN  [buffer |-> <<>>,
                  ret |-> IF from_utf8_ok(line) THEN OkSome(line)
                          ELSE Err("Invalid String"),
                  split |-> n]
        ELSE [buffer |-> <<>>, ret |-> OkNone, split |-> 0]

\* a decode that leaves a frame that is not UTF-8 in the buffer
decode_keeps_bad_frame(buf, src) ==
    LET extended == buf \o src
    IN  IF \E n \in 1..Len(extended) : extended[n] = CR
        THEN LET n == CHOOSE n \in 1..Len(extended) :
                          extended[n] = CR /\ \A k \in 1..(n - 1) : extended[k] # CR
                 line == SubSeq(extended, 1, n - 1)
             IN  IF from_utf8_ok(line)
                 THEN [buffer |-> <<>>, ret |-> OkSome(line), split |-> n]
                 ELSE [buffer |-> extended, ret |-> Err("Invalid String"),
                       split |-> 0]
        ELSE [buffer |-> extended, ret |-> OkNone, split |-> 0]

\* Codec::decode: the buffer after the call, what the call returns, and the
\* number of bytes split off the front of the buffer (0: no frame yet).
\* split_to(n + 1) leaves the bytes after the terminator in the buffer and
\* clear() then drops them.
decode(buf, src) ==
    LET extended == buf \o src
    IN  IF \E n \in 1..Len(extended) : extended[n] = CR
        THEN LET n == CHOOSE n \in 1..Len(extended) :
                          extended[n] = CR /\ \A k \in 1..(n - 1) : extended[k] # CR
                 line == SubSeq(extended, 1, n - 1)
                 rest == SubSeq(extended, n + 1, Len(extended))
                 cleared == <<>>
             IN  [buffer |-> cleared,
                  ret |-> IF from_utf8_ok(line) THEN OkSome(line)
                          ELSE Err("Invalid String"),
                  split |-> n]
        ELSE [buffer |-> extended, ret |-> OkNone, split |-> 0]

\* Codec::encode (codec.rs): dst after the call; the call returns Ok(())
encode(i, d) ==
    IF Len(i) > 0
    THEN d \o i \o <<CR, ":">>
    ELSE d \o <<":">>

-----------------------------------------------------------------------------
(* The processor driven request by request (the tests of commands.rs) *)

Sp == <<" ">>
Q == <<"?">>

Messages ==
    { PWR \o Sp \o <<"O", "N">>,
      PWR \o Sp \o <<"O", "F", "F">>,
      PWR \o Q,
      PWR \o Sp \o <<"1">>,
      SNO \o Q,
      SNO \o Sp \o <<"1">>,
      ERR \o Q,
      LAMP \o Q,
      LAMP \o Sp \o <<"5">>,
      KEY \o Sp \o <<"0", "1">>,
      KEY \o Q,
      AUTOHOME \o Sp \o <<"0", "1">>,
      AUTOHOME \o Q,
      AUTOHOME \o Sp \o <<"I", "N", "I", "T">>,
      AUTOHOME \o Sp \o <<"z", "z">>,
      AUTOHOME \o Sp \o <<"0", "1", "2", "3">>,
      VOL \o Sp \o <<"9">>,
      VOL \o Sp \o <<"x">>,
      VOL \o Q,
      <<"F", "O", "O">> \o Q,
      <<"F", "O", "O">> \o Sp \o <<"1">>,
      <<>>,
      PWR,
      <<"v", "o", "l", " ", "9">>,
      <<"x">> \o VOL \o Sp \o <<"9">> }

Self == [commands |-> commands, power_state |-> power_state,
         warming |-> warming, cooling |-> cooling]

Durations == 0..MaxDuration

\* a processor made by a test, not by the command line
NoArgs == [some |-> FALSE]

Init ==
    /\ \E w \in Durations, c \in Durations :
          LET processor == CommandProcessor_new(w, c)
          IN  /\ commands = processor.commands
              /\ power_state = processor.power_state
              /\ warming = processor.warming
              /\ cooling = processor.cooling
    /\ now = 0
    /\ message = <<>>
    /\ result = NoResult
    /\ edges = {}
    /\ buffer = <<>>
    /\ running = "running"
    /\ inbound = <<>>
    /\ written = <<>>
    /\ results = <<>>
    /\ taken = 0
    /\ args = NoArgs
    /\ item = <<>>
    /\ dst = <<>>

\* the processor fields and the history after a call that returned r
Processed(r) ==
    /\ commands' = r.self.commands
    /\ power_state' = r.self.power_state
    /\ warming' = r.self.warming
    /\ cooling' = r.self.cooling
    /\ edges' = IF r.self.power_state.tag # power_state.tag
                THEN edges \cup {<<power_state.tag, r.self.power_state.tag>>}
                ELSE edges

\* one call of process_message by the owner of the processor; a panic
\* unwinds the owner
ProcessMessage(m) ==
    /\ result # Panic
    /\ LET r == process_message(Self, now, m)
       IN  /\ Processed(r)
           /\ message' = m
           /\ result' = r.ret
    /\ UNCHANGED <<now, ioVars, codecVars, cliVars, encVars>>

\* wall-clock time passes
Tick ==
    /\ now < MaxClock
    /\ now' = now + 1
    /\ UNCHANGED <<procVars, obsVars, ioVars, codecVars, cliVars, encVars>>

Next ==
    \/ \E m \in Messages : ProcessMessage(m)
    \/ Tick

Spec == Init /\ [][Next]_vars

-----------------------------------------------------------------------------
(* The codec fed chunk by chunk *)

RECURSIVE Flatten(_)
Flatten(chunks) ==
    IF chunks = <<>> THEN <<>> ELSE Head(chunks) \o Flatten(Tail(chunks))

CodecBytes == {"S", CR, "xC3", "xA9"}

SeqsUpTo(S, n) == UNION {[1..k -> S] : k \in 0..n}

\* one call of Codec::decode
Decoded(d, chunk) ==
    /\ buffer' = d.buffer
    /\ inbound' = Append(inbound, chunk)
    /\ results' = Append(results, d.ret)
    /\ taken' = taken + d.split

Decode(chunk) ==
    /\ Len(inbound) < MaxReads + 1
    /\ Len(Flatten(inbound)) + Len(chunk) <= MaxStreamLen
    /\ Decoded(decode(buffer, chunk), chunk)
    /\ UNCHANGED <<procVars, now, obsVars, running, written, cliVars, encVars>>

NextCodec == \E chunk \in SeqsUpTo(CodecBytes, MaxChunkLen) : Decode(chunk)

\* the codec alone: the processor beside it is never called
InitCodec == Init /\ warming = 0 /\ cooling = 0

SpecCodec == InitCodec /\ [][NextCodec]_vars

-----------------------------------------------------------------------------
(* The encoder of codec.rs called reply by reply *)

\* the bytes of the replies: ERR, and payloads over the same letters
ItemBytes == {"E", "R"}

\* one call of Codec::encode
Encode(i) ==
    /\ Len(dst) + Len(i) + 2 <= MaxDstLen
    /\ item' = i
    /\ dst' = encode(i, dst)
    /\ UNCHANGED <<procVars, now, obsVars, ioVars, codecVars, cliVars>>

NextEncode == \E i \in SeqsUpTo(ItemBytes, MaxItemLen) : Encode(i)

\* the codec alone: the processor beside it is never called
InitEncode == Init /\ warming = 0 /\ cooling = 0

SpecEncode == InitEncode /\ [][NextEncode]_vars

-----------------------------------------------------------------------------
(* start(): the I/O loop *)

CRs == <<CR>>

IOChunks ==
    { SNO \o Q \o CRs,
      SNO,
      Q \o CRs,
      SNO \o Q \o CRs \o SNO \o Q \o CRs,
      <<"xA9">> \o CRs,
      PWR \o Sp \o <<"O", "N">> \o CRs,
      PWR \o CRs,
      LAMP \o Q \o CRs,
      SNO \o Sp \o <<"1">> \o CRs }

\* the port.write calls of one completed frame
Writes(ret) ==
    (CASE ret.kind = "Ok" /\ ret.some -> <<ret.v>>
       [] ret.kind = "Ok" /\ ~ret.some -> <<>>
       [] ret.kind = "Err" -> << <<"E", "R", "R">> >>)
    \o << <<CR, ":">> >>

\* port.read returned Ok(t) with t > 0: decode the chunk and, for a
\* completed frame, process it and write the reply
ReadChunk(chunk) ==
    /\ running = "running"
    /\ Len(inbound) < MaxReads
    /\ LET d == decode(buffer, chunk)
       IN  /\ Decoded(d, chunk)
           /\ IF d.ret.kind = "Ok" /\ d.ret.some
              THEN LET r == process_message(Self, now, d.ret.v)
                   IN  /\ Processed(r)
                       /\ message' = d.ret.v
                       /\ result' = r.ret
                       /\ IF r.ret = Panic
                          THEN running' = "panicked" /\ written' = written
                          ELSE running' = running /\ written' = written \o Writes(r.ret)
              ELSE UNCHANGED <<procVars, obsVars, running, written>>
    /\ UNCHANGED <<now, cliVars, encVars>>

\* port.read returned Ok(0)
ReadNothing ==
    /\ running = "running"
    /\ UNCHANGED vars

\* port.read returned Err of kind TimedOut
ReadTimeout ==
    /\ running = "running"
    /\ UNCHANGED vars

\* port.read returned any other Err: break
ReadError ==
    /\ running = "running"
    /\ running' = "stopped"
    /\ UNCHANGED <<procVars, now, obsVars, buffer, inbound, written, codecVars, cliVars, encVars>>

NextIO ==
    \/ \E chunk \in IOChunks : ReadChunk(chunk)
    \/ ReadNothing
    \/ ReadTimeout
    \/ ReadError
    \/ Tick

SpecIO == Init /\ [][NextIO]_vars

-----------------------------------------------------------------------------
(* main(): the command `open` *)

DEFAULT_WARMING == 20
DEFAULT_COOLING == 5

\* the values clap gives --warming and --cooling
OpenArgs ==
    {[some |-> TRUE, warming |-> DEFAULT_WARMING, cooling |-> DEFAULT_COOLING]}
    \cup {[some |-> TRUE, warming |-> w, cooling |-> c] : w \in Durations, c \in Durations}

\* start(port, warming, cooling): the processor the loop runs
start_processor(w, c) == CommandProcessor_new(w, c)

\* Commands::Open in main(): escvp21::start(port, cooling, warming)
main_open(a) == start_processor(a.cooling, a.warming)

InitCLI ==
    /\ args \in OpenArgs
    /\ LET processor == main_open(args)
       IN  /\ commands = processor.commands
           /\ power_state = processor.power_state
           /\ warming = processor.warming
           /\ cooling = processor.cooling
    /\ now = 0
    /\ message = <<>>
    /\ result = NoResult
    /\ edges = {}
    /\ buffer = <<>>
    /\ running = "running"
    /\ inbound = <<>>
    /\ written = <<>>
    /\ results = <<>>
    /\ taken = 0
    /\ item = <<>>
    /\ dst = <<>>

SpecCLI == InitCLI /\ [][NextIO]_vars

-----------------------------------------------------------------------------
(* Properties of the command processor, checked under Spec.  In Spec a     *)
(* step that leaves the clock alone is a call of process_message.          *)

PWR_ON == PWR \o Sp \o <<"O", "N">>
PWR_OFF == PWR \o Sp \o <<"O", "F", "F">>
PWR_QUERY == PWR \o Q

Reply(name, value) == OkSome(name \o <<"=">> \o value)

AllEdges == { <<"PowerOff", "Warming">>, <<"Warming", "LampOn">>,
              <<"LampOn", "Cooling">>, <<"Cooling", "PowerOff">> }

\* the power state a request arriving now finds once the timed transitions
\* that are due have been applied
Due(state) ==
    IF state.tag = "Warming" /\ now - state.timer > warming THEN LampOn
    ELSE IF state.tag = "Cooling" /\ now - state.timer > cooling THEN PowerOff
    ELSE state

\* the two-character codes of the protocol
Code(state) ==
    CASE state = PowerOff -> <<"0", "0">>
      [] state = LampOn -> <<"0", "1">>
      [] state.tag = "Warming" -> <<"0", "2">>
      [] state.tag = "Cooling" -> <<"0", "3">>

\* C1: the power cycle seen through PWR?.  On a processor in PowerOff (as a
\* fresh one is) PWR ON replies empty and starts Warming now; PWR? at the
\* instant Warming began replies PWR=02; PWR? once more than the warming
\* duration has passed since Warming began replies PWR=01, whatever was or
\* was not requested in between; in LampOn PWR OFF replies empty and starts
\* Cooling now; PWR? at the instant Cooling began replies PWR=03; PWR? once
\* more than the cooling duration has passed replies PWR=00.
C1_PowerCycle ==
    /\ power_state = PowerOff
    /\ [][ now' = now =>
            /\ (message' = PWR_ON /\ power_state = PowerOff) =>
                   (result' = OkNone /\ power_state' = Warming(now))
            /\ (message' = PWR_QUERY /\ power_state = Warming(now)) =>
                   result' = Reply(PWR, <<"0", "2">>)
            /\ (message' = PWR_QUERY /\ power_state.tag = "Warming"
                    /\ now - power_state.timer > warming) =>
                   (result' = Reply(PWR, <<"0", "1">>) /\ power_state' = LampOn)
            /\ (message' = PWR_OFF /\ power_state = LampOn) =>
                   (result' = OkNone /\ power_state' = Cooling(now))
            /\ (message' = PWR_QUERY /\ power_state = Cooling(now)) =>
                   result' = Reply(PWR, <<"0", "3">>)
            /\ (message' = PWR_QUERY /\ power_state.tag = "Cooling"
                    /\ now - power_state.timer > cooling) =>
                   (result' = Reply(PWR, <<"0", "0">>) /\ power_state' = PowerOff)
         ]_vars

\* the whole cycle has been gone through and the closing PWR? replied PWR=00
C1_Witness ==
    /\ edges = AllEdges
    /\ message = PWR_QUERY
    /\ result = Reply(PWR, <<"0", "0">>)
    /\ power_state = PowerOff

\* C2: PWR? never fails; it leaves the power state with the due timed
\* transition applied and replies PWR= followed by the code of that state:
\* 00 PowerOff, 01 LampOn, 02 Warming, 03 Cooling.
C2_PowerQuery ==
    [][ (now' = now /\ message' = PWR_QUERY) =>
            /\ power_state' = Due(power_state)
            /\ result' = Reply(PWR, Code(Due(power_state)))
            /\ result'.v \in { PWR \o <<"=", "0", c>> : c \in {"0", "1", "2", "3"} }
      ]_vars

\* PWR? has replied PWR=01 for a lamp that had been warming
C2_Witness ==
    /\ message = PWR_QUERY
    /\ result = Reply(PWR, <<"0", "1">>)
    /\ edges = { <<"PowerOff", "Warming">>, <<"Warming", "LampOn">> }

\* C3: the processor starts in PowerOff, and whenever the variant of the
\* power state changes, the change is PowerOff -> Warming made by PWR ON,
\* Warming -> LampOn with more than the warming duration elapsed,
\* LampOn -> Cooling made by PWR OFF, or Cooling -> PowerOff with more than
\* the cooling duration elapsed.
C3_TransitionGraph ==
    /\ power_state = PowerOff
    /\ [][ power_state'.tag # power_state.tag =>
            \/ /\ power_state = PowerOff /\ power_state' = Warming(now)
               /\ message' = PWR_ON
            \/ /\ power_state.tag = "Warming" /\ power_state' = LampOn
               /\ now - power_state.timer > warming
            \/ /\ power_state = LampOn /\ power_state' = Cooling(now)
               /\ message' = PWR_OFF
            \/ /\ power_state.tag = "Cooling" /\ power_state' = PowerOff
               /\ now - power_state.timer > cooling
         ]_vars

\* every edge of the graph has been taken
C3_Witness == edges = AllEdges /\ power_state.tag = "Warming"

GateValues == { <<"0", "1">>, <<"x">>, <<"O", "N">> }

\* C4: in every reachable state and for every parameter of the table: SNO
\* and ERR are the power-off-accessible ones and a query or set of them is
\* never refused with InvalidPowerState; for every other parameter a query
\* and a set are refused with InvalidPowerState when the power state with
\* the due timed transition applied is not LampOn, and are answered by the
\* parameter's get_value / set_value when it is LampOn (also when the stored
\* state is still Warming and only the request itself applies the
\* transition).
C4_AccessGate ==
    \A name \in DOMAIN commands :
        LET param == commands[name]
            query == process_message(Self, now, name \o Q).ret
        IN  /\ param.supported_in_power_off <=> name \in {SNO, ERR}
            /\ IF name \in {SNO, ERR}
               THEN query # Err("InvalidPowerState")
               ELSE IF Due(power_state) = LampOn
               THEN query = IF param.value.some
                            THEN Reply(name, param.value.v)
                            ELSE Err("InvalidCommand")
               ELSE query = Err("InvalidPowerState")
            /\ \A value \in GateValues :
                  LET set == process_message(Self, now, name \o Sp \o value).ret
                  IN  IF name \in {SNO, ERR}
                      THEN set # Err("InvalidPowerState")
                      ELSE IF Due(power_state) = LampOn
                      THEN set = set_value(param, value).ret
                      ELSE set = Err("InvalidPowerState")

\* the gated query LAMP? has been answered at the first instant the warming
\* duration was exceeded
C4_Witness ==
    /\ message = LAMP \o Q
    /\ result = Reply(LAMP, LAMP_HOURS_DEFAULT)
    /\ power_state = LampOn
    /\ now = warming + 1
    /\ edges = { <<"PowerOff", "Warming">>, <<"Warming", "LampOn">> }

\* C5 as claimed: a request that returns an error leaves the parameter table
\* and the power state (variant and timestamp) as they were.
C5_ErrorChangesNothing ==
    [][ (now' = now /\ result'.kind = "Err") =>
            (commands' = commands /\ power_state' = power_state)
      ]_vars

\* C5 as amended: a request that returns an error leaves the parameter table
\* and the durations as they were, and leaves the power state as it was or
\* with the timed transition that was due applied (Warming -> LampOn,
\* Cooling -> PowerOff); an erroneous PWR set leaves the power state as it
\* was.
C5_ErrorKeepsTable ==
    [][ (now' = now /\ result'.kind = "Err") =>
            /\ commands' = commands
            /\ warming' = warming /\ cooling' = cooling
            /\ power_state' \in {power_state, Due(power_state)}
            /\ message' = PWR \o Sp \o <<"1">> => power_state' = power_state
      ]_vars

\* a set refused with InvalidValue in LampOn, after sets that succeeded
C5_Witness ==
    /\ result = Err("InvalidValue")
    /\ message = VOL \o Sp \o <<"x">>
    /\ commands[VOL].value = Some(<<"9">>)

\* a frame of the form name, space, non-empty value and nothing else
WellFormedSet(m) ==
    \E j \in 2..(Len(m) - 2) :
        /\ m[1] \in Upper
        /\ \A k \in 2..j : m[k] \in UpperAlnum
        /\ m[j + 1] = " "

\* C6: a request that is neither a query nor of the form name, space,
\* non-empty value returns Err(InvalidCommand).
C6_MalformedIsInvalidCommand ==
    (result # NoResult /\ ~ends_with_question(message) /\ ~WellFormedSet(message))
        => result = Err("InvalidCommand")

-----------------------------------------------------------------------------
(* Properties of the parameter table, checked under Spec *)

INIT == <<"I", "N", "I", "T">>

\* the values tried on every parameter
ClaimValues ==
    { <<"9">>, <<"x">>, <<"0", "1">>, <<"z", "z">>, <<"0", "1", "2", "3">>,
      <<"x", "9">>, <<"O", "N">>, <<"1", " ", "-", "2">>, INIT }

\* the request that sets the parameter to the value
SetRequest(name, value) == name \o Sp \o value

\* the parameter can be read and written
ReadWrite(param) == param.value.some /\ param.validation.some

\* C11 as claimed: for a parameter with a value and a validation, a set of v
\* that succeeds, followed (with no other request in between) by a query of
\* the parameter, is answered NAME=v.
C11_RoundTripAnyValue ==
    [][ (result = OkNone /\ ends_with_question(message')) =>
            \A name \in DOMAIN commands, v \in ClaimValues :
                ( /\ ReadWrite(commands[name])
                  /\ message = SetRequest(name, v)
                  /\ message' = name \o Q )
                => result' = Reply(name, v)
      ]_vars

\* C11 as amended: the same for every v other than the literal INIT.
C11_RoundTrip ==
    [][ (result = OkNone /\ ends_with_question(message')) =>
            \A name \in DOMAIN commands, v \in ClaimValues \ {INIT} :
                ( /\ ReadWrite(commands[name])
                  /\ message = SetRequest(name, v)
                  /\ message' = name \o Q )
                => result' = Reply(name, v)
      ]_vars

\* AUTOHOME 0123 has been answered by AUTOHOME=0123
C11_Witness ==
    /\ message = AUTOHOME \o Q
    /\ result = Reply(AUTOHOME, <<"0", "1", "2", "3">>)

\* C12: in every reachable state every present value of a writable parameter
\* is its default or is accepted by its validation; and in LampOn, for every
\* parameter with a present value and every value tried, a set that succeeds
\* leaves a stored value that the validation accepts, which is the default
\* when the value set was INIT.
C12_StoredValueValid ==
    /\ \A name \in DOMAIN commands :
          ReadWrite(commands[name]) =>
              \/ commands[name].value.v = commands[name].default
              \/ is_match(commands[name].validation.v, commands[name].value.v)
    /\ Due(power_state) = LampOn =>
          \A name \in DOMAIN commands, v \in ClaimValues :
              LET r == process_set(Self, now, name, v)
                  after == r.self.commands[name]
              IN  (r.ret = OkNone /\ commands[name].value.some) =>
                      /\ after.value.some
                      /\ is_match(after.validation.v, after.value.v)
                      /\ v = INIT => after.value.v = after.default

\* AUTOHOME INIT has put AUTOHOME, set to 01 before, back to its default
C12_Witness ==
    /\ message = SetRequest(AUTOHOME, INIT)
    /\ result = OkNone
    /\ commands[AUTOHOME].value = Some(AUTOHOME_DEFAULT)
    /\ commands[VOL].value = Some(<<"9">>)

\* C13: KEY has no value in any reachable state; in LampOn a set of KEY with
\* a value its validation accepts returns the empty reply and leaves the
\* whole table as it was, and a query of KEY fails with InvalidCommand.
C13_WriteOnlyKey ==
    /\ commands[KEY].value = NoValue
    /\ Due(power_state) = LampOn =>
          /\ process_message(Self, now, KEY \o Q).ret = Err("InvalidCommand")
          /\ \A v \in { <<"0", "1">>, <<"0", "1", "2", "3">>, <<"O", "N">>, INIT } :
                LET r == process_message(Self, now, SetRequest(KEY, v))
                IN  r.ret = OkNone /\ r.self.commands = commands

\* KEY? has failed with InvalidCommand in LampOn
C13_Witness ==
    /\ message = KEY \o Q
    /\ result = Err("InvalidCommand")
    /\ power_state = LampOn

ReadOnlyNames == {SNO, LAMP, ERR, SIGNAL, ONTIME}

\* C14: the parameters without validation are SNO, LAMP, ERR, SIGNAL and
\* ONTIME; in every reachable state a set of one of them fails for every
\* value tried and changes no parameter, with InvalidCommand when the gate
\* lets the parameter through (always for SNO and ERR, in LampOn for the
\* others) and with InvalidPowerState otherwise, and a query that the gate
\* lets through replies the default given at construction.
C14_ReadOnly ==
    /\ {name \in DOMAIN commands : ~commands[name].validation.some} = ReadOnlyNames
    /\ \A name \in ReadOnlyNames :
          LET open == name \in {SNO, ERR} \/ Due(power_state) = LampOn
              query == process_query(Self, now, name).ret
          IN  /\ open => query = Reply(name, HashMap_from(actual_commands)[name].default)
              /\ \A v \in ClaimValues :
                    LET r == process_set(Self, now, name, v)
                    IN  /\ r.ret = IF open THEN Err("InvalidCommand")
                                   ELSE Err("InvalidPowerState")
                        /\ r.self.commands = commands

\* the set LAMP 5 has been refused with InvalidCommand in LampOn
C14_Witness ==
    /\ message = SetRequest(LAMP, <<"5">>)
    /\ result = Err("InvalidCommand")
    /\ power_state = LampOn

\* C15: PWR ON processed while the stored state is Warming, LampOn or
\* Cooling, and PWR OFF processed while it is PowerOff, Warming or Cooling,
\* reply empty and leave the power state, timestamp included, as it was;
\* and as long as the variant stays the same the timestamp stays the same.
C15_PowerSetNoOp ==
    [][ /\ (now' = now /\ message' = PWR_ON /\ power_state.tag # "PowerOff") =>
               (result' = OkNone /\ power_state' = power_state)
        /\ (now' = now /\ message' = PWR_OFF /\ power_state.tag # "LampOn") =>
               (result' = OkNone /\ power_state' = power_state)
        /\ power_state'.tag = power_state.tag => power_state' = power_state
      ]_vars

\* PWR ON has been processed, and ignored, by a cooling projector
C15_Witness ==
    /\ message = PWR_ON
    /\ result = OkNone
    /\ power_state.tag = "Cooling"

AllNames ==
    { SNO, LAMP, KEY, FREEZE, FASTBOOT, AUTOHOME, SIGNAL, ONTIME, ERR, SOURCE,
      MUTE, VOL, ZOOM, HREVERSE, VREVERSE, IMGSHIFT, REFRESHTIME }

\* C17: in every reachable state the names of the table are the seventeen
\* of the construction, every default is the one given at construction,
\* every parameter constructed with a value has a non-empty value, and KEY,
\* constructed without one, has none.
C17_TableShape ==
    LET constructed == HashMap_from(actual_commands)
    IN  /\ DOMAIN commands = AllNames
        /\ \A name \in AllNames :
              /\ commands[name].default = constructed[name].default
              /\ commands[name].value.some = (name # KEY)
              /\ commands[name].value.some => Len(commands[name].value.v) > 0

\* a request has failed after sets of VOL and AUTOHOME that succeeded, and a
\* set of KEY has been accepted
C17_Witness ==
    /\ commands[VOL].value = Some(<<"9">>)
    /\ commands[AUTOHOME].value = Some(<<"0", "1", "2", "3">>)
    /\ message = SetRequest(KEY, <<"0", "1">>)
    /\ result = OkNone

\* C18: a PWR set sees the timed transition that is due: PWR OFF processed
\* once more than the warming duration has passed since Warming began puts
\* the machine in Cooling, and PWR ON processed once more than the cooling
\* duration has passed since Cooling began puts it in Warming.
C18_PowerSetSeesDueTransition ==
    [][ /\ ( /\ now' = now /\ message' = PWR_OFF
             /\ power_state.tag = "Warming"
             /\ now - power_state.timer > warming )
           => power_state' = Cooling(now)
        /\ ( /\ now' = now /\ message' = PWR_ON
             /\ power_state.tag = "Cooling"
             /\ now - power_state.timer > cooling )
           => power_state' = Warming(now)
      ]_vars

\* C19: in every reachable state, at the current clock value, the sampling
\* step changes nothing but the power state, and changes that if and only
\* if it is Warming with now - started_at > warming (the result is LampOn)
\* or Cooling with now - started_at > cooling (the result is PowerOff); a
\* second sampling at the same clock value changes nothing more.
C19_Sampling ==
    LET once == get_power_state(Self, now)
        twice == get_power_state(once, now)
        warm == power_state.tag = "Warming" /\ now - power_state.timer > warming
        cool == power_state.tag = "Cooling" /\ now - power_state.timer > cooling
    IN  /\ once.power_state # power_state <=> (warm \/ cool)
        /\ warm => once.power_state = LampOn
        /\ cool => once.power_state = PowerOff
        /\ power_state \in {PowerOff, LampOn} => once = Self
        /\ once.commands = commands
        /\ once.warming = warming /\ once.cooling = cooling
        /\ twice = once

\* PWR? has sampled a projector that had been warming for exactly the
\* warming duration, and has found it warming still
C19_Witness ==
    /\ power_state.tag = "Warming"
    /\ now - power_state.timer = warming
    /\ warming > 0
    /\ message = PWR_QUERY
    /\ result = Reply(PWR, <<"0", "2">>)

Substrings(v) == {SubSeq(v, i, j) : i \in 1..Len(v), j \in 1..Len(v)} \ {<<>>}

\* C20: in LampOn, for every parameter with a validation and every value
\* tried, a set succeeds if and only if the pattern matches some substring
\* of the value, and fails with InvalidValue and an unchanged table
\* otherwise; a set that succeeds with a value other than INIT on a
\* parameter that has a value stores the whole value.  So VOL 9 succeeds,
\* VOL x fails and AUTOHOME 0123 stores 0123.
C20_SubstringMatch ==
    Due(power_state) = LampOn =>
        /\ \A name \in AllNames \ ReadOnlyNames, v \in ClaimValues :
              LET r == process_set(Self, now, name, v)
                  accepted == \E w \in Substrings(v) :
                                  FullMatch(commands[name].validation.v, w)
              IN  /\ r.ret = IF accepted THEN OkNone ELSE Err("InvalidValue")
                  /\ ~accepted => r.self.commands = commands
                  /\ (accepted /\ v # INIT /\ name # KEY) =>
                         r.self.commands[name].value = Some(v)
        /\ process_message(Self, now, SetRequest(VOL, <<"9">>)).ret = OkNone
        /\ process_message(Self, now, SetRequest(VOL, <<"x">>)).ret = Err("InvalidValue")
        /\ process_message(Self, now, SetRequest(AUTOHOME, <<"0", "1", "2", "3">>))
               .self.commands[AUTOHOME].value = Some(<<"0", "1", "2", "3">>)

\* AUTOHOME 0123 has succeeded and 0123 is stored
C20_Witness ==
    /\ message = SetRequest(AUTOHOME, <<"0", "1", "2", "3">>)
    /\ result = OkNone
    /\ commands[AUTOHOME].value = Some(<<"0", "1", "2", "3">>)

RECURSIVE Spaces(_)
Spaces(k) == IF k = 0 THEN <<>> ELSE Sp \o Spaces(k - 1)

\* C21: a set request with k >= 1 spaces between the name and the value is
\* handled like the request with one space: the same result and the same
\* processor afterwards, so that in LampOn a successful VOL, two spaces, 9
\* is followed by the reply VOL=9 to VOL?.
C21_SpacesSeparate ==
    Due(power_state) = LampOn =>
        \A k \in 1..MaxSpaces :
            /\ \A name \in AllNames, v \in ClaimValues :
                  process_message(Self, now, name \o Spaces(k) \o v)
                      = process_message(Self, now, name \o Sp \o v)
            /\ LET r == process_message(Self, now, VOL \o Spaces(k) \o <<"9">>)
               IN  r.ret = OkNone =>
                      process_message(r.self, now, VOL \o Q).ret
                          = Reply(VOL, <<"9">>)

-----------------------------------------------------------------------------
(* Properties of the I/O loop, checked under SpecIO *)

\* the number of elements of s that satisfy Test
Count(s, Test(_)) == Cardinality({i \in 1..Len(s) : Test(s[i])})

IsCR(b) == b = CR
IsTerminator(w) == w = <<CR, ":">>

\* C7: every frame completed on the transport gets its reply: as long as no
\* panic has unwound the loop, as many reply terminators have been written
\* as carriage returns have been read, and the last write is a terminator.
C7_OneReplyPerFrame ==
    running # "panicked" =>
        /\ Count(written, IsTerminator) = Count(Flatten(inbound), IsCR)
        /\ written # <<>> => IsTerminator(written[Len(written)])

\* C8: the loop leaves the running state only by the break that follows a
\* read error other than a timeout.
C8_StopsOnlyOnReadError ==
    [][ running = "running" => running' \in {"running", "stopped"} ]_vars

-----------------------------------------------------------------------------
(* Properties of the codec, checked under SpecCodec *)

\* the index of the chunk that holds the first carriage return
FirstCRChunk(chunks) ==
    CHOOSE k \in 1..Len(chunks) :
        /\ Count(chunks[k], IsCR) > 0
        /\ \A i \in 1..(k - 1) : Count(chunks[i], IsCR) = 0

\* C9: when the bytes fed so far to a new codec are a request that ends in
\* its only carriage return, every decode call before the one whose chunk
\* held the carriage return returned "no frame yet", and that call returned
\* the bytes before the carriage return, verbatim, as the frame (or the
\* framing error, if they are not UTF-8): the result decode gives for the
\* request in one chunk.  Without a carriage return every call returned "no
\* frame yet" and the buffer holds all the bytes.
C9_Reassembly ==
    LET stream == Flatten(inbound)
        frame == SubSeq(stream, 1, Len(stream) - 1)
    IN  /\ Count(stream, IsCR) = 0 =>
              /\ \A i \in 1..Len(results) : results[i] = OkNone
              /\ buffer = stream
        /\ (Count(stream, IsCR) = 1 /\ stream[Len(stream)] = CR) =>
              LET k == FirstCRChunk(inbound)
              IN  /\ \A i \in 1..(k - 1) : results[i] = OkNone
                  /\ results[k] = IF from_utf8_ok(frame) THEN OkSome(frame)
                                  ELSE Err("Invalid String")
                  /\ results[k] = decode(<<>>, stream).ret

\* a two-byte frame has been put together from three chunks, the second one
\* empty
C9_Witness ==
    /\ Len(inbound) = 3
    /\ inbound[1] = <<"S">> /\ inbound[2] = <<>> /\ inbound[3] = <<"S", CR>>
    /\ results = <<OkNone, OkNone, OkSome(<<"S", "S">>)>>

\* C10: decode loses no byte: the buffer holds every byte fed so far that
\* lies after the frames already handed out, so that later calls return the
\* frames that follow.
C10_NoByteLost ==
    LET stream == Flatten(inbound)
    IN  buffer = SubSeq(stream, taken + 1, Len(stream))

\* the bytes of s before its first carriage return
BeforeFirstCR(s) ==
    LET n == CHOOSE n \in 1..Len(s) : s[n] = CR /\ \A k \in 1..(n - 1) : s[k] # CR
    IN  SubSeq(s, 1, n - 1)

\* C22: a decode call returns the framing error exactly when the buffer
\* with the new bytes holds a carriage return and the bytes before the
\* first one are not UTF-8, and "no frame yet" when it holds none; after an
\* error the buffer is empty; and when the bytes fed after a call that
\* returned the error are a UTF-8 frame ending in its only carriage return,
\* and the last call brought the carriage return, the calls between
\* returned "no frame yet" and the last call returned the frame, verbatim.
C22_ErrorRecovery ==
    [][ inbound' # inbound =>
          LET extended == buffer \o inbound'[Len(inbound')]
              ret == results'[Len(results')]
              complete == Count(extended, IsCR) > 0
          IN  /\ ret = Err("Invalid String")
                    <=> (complete /\ ~from_utf8_ok(BeforeFirstCR(extended)))
              /\ ~complete => ret = OkNone
              /\ ret = Err("Invalid String") => buffer' = <<>>
              /\ \A i \in 1..(Len(results') - 1) :
                    LET later == Flatten(SubSeq(inbound', i + 1, Len(inbound')))
                        frame == SubSeq(later, 1, Len(later) - 1)
                    IN  ( /\ results'[i] = Err("Invalid String")
                          /\ Count(later, IsCR) = 1
                          /\ later[Len(later)] = CR
                          /\ Count(inbound'[Len(inbound')], IsCR) = 1
                          /\ from_utf8_ok(frame) )
                        => /\ ret = OkSome(frame)
                           /\ \A j \in (i + 1)..(Len(results') - 1) :
                                 Count(inbound'[j], IsCR) = 0
                                     => results'[j] = OkNone
      ]_vars

\* a frame that is not UTF-8 has been refused, and the frame fed after it
\* in two chunks has been returned
C22_Witness ==
    /\ inbound = << <<"xA9", CR>>, <<"S">>, <<CR>> >>
    /\ results = <<Err("Invalid String"), OkNone, OkSome(<<"S">>)>>
    /\ buffer = <<>>

-----------------------------------------------------------------------------
(* Properties of the encoder, checked under SpecEncode *)

\* C23: every encode call appends the item followed by the two bytes of
\* the terminator, carriage return and colon, to dst: the empty item
\* appends the terminator alone.
C23_TerminatorAfterEveryItem ==
    [][ dst' = dst \o item' \o <<CR, ":">> ]_vars

-----------------------------------------------------------------------------
(* Properties of the command line, checked under SpecCLI *)

\* C16: the processor that `open` runs has the value of --warming as its
\* warming duration and the value of --cooling as its cooling duration.
C16_OptionsReachProcessor ==
    args.some => (warming = args.warming /\ cooling = args.cooling)

=============================================================================
